---- MODULE Spec2Model ----
(***************************************************************************)
(* Model of src/src/busca_similaridade.py: the menu loop of main, the      *)
(* loader carregar_embeddings, the three modes of BuscadorSimilaridade     *)
(* (modo_faq, modo_filmes, modo_anomalias) and the numeric helpers they    *)
(* call; and of src/src/converte_embeddings.py: the text extraction        *)
(* extrair_perguntas_respostas_de_texto and the three processar_* calls of *)
(* its main.  The two programs never run together: Spec and SpecJusta are  *)
(* the search program, SpecExtracao one call of the extraction on any      *)
(* text, SpecConversor the main of the converter.                          *)
(*                                                                         *)
(* Numbers.  A float is a record: an exact rational [t |-> "num", n, d]    *)
(* in lowest terms, the IEEE value NaN [t |-> "nan"], or the lowest float  *)
(* [t |-> "min"] that FAISS writes as the score of a padding entry.  The   *)
(* input vectors are drawn from Vetores, whose L2 norms are integers, so   *)
(* that v / ||v|| and every inner product is an exact rational; rounding   *)
(* of float32 is not modelled.                                             *)
(*                                                                         *)
(* Positions are 0-based as in Python: item i of a collection is           *)
(* emb[i + 1] of the TLA+ sequence; the label -1 is the FAISS padding.     *)
(***************************************************************************)
EXTENDS Integers, Sequences, FiniteSets, TLC

\* Largest number of embedding rows of a transport document.
MaxN == 4

\* The embedding vectors a document or the embedding model may hold (D = 2).
Vetores == { <<0, 0>>, <<2, 0>>, <<3, 4>> }

----------------------------------------------------------------------------
(* Floats *)

RECURSIVE GCD(_, _)
GCD(a, b) == IF b = 0 THEN a ELSE GCD(b, a % b)

Abs(x) == IF x < 0 THEN -x ELSE x

NaN == [t |-> "nan", n |-> 0, d |-> 1]

\* The lowest float: faiss's CMin::neutral(), the score of a padding entry.
FMin == [t |-> "min", n |-> 0, d |-> 1]

\* The rational n / d (d > 0) in lowest terms.
Frac(n, d) ==
    LET g == GCD(Abs(n), d)
    IN  [t |-> "num", n |-> n \div g, d |-> d \div g]

F(x) == Frac(x, 1)

IsNum(a) == a.t = "num"

\* a / b of numpy: 0/0 is NaN (a warning, no exception); NaN propagates.
\* x/0 with x # 0 is +-inf, which no caller produces (a zero norm means a
\* zero vector), so it is left as NaN here.
FDiv(a, b) ==
    IF ~IsNum(a) \/ ~IsNum(b) THEN NaN
    ELSE IF b.n = 0 THEN NaN
    ELSE IF b.n > 0 THEN Frac(a.n * b.d, a.d * b.n)
    ELSE Frac(-(a.n * b.d), a.d * (-b.n))

FMul(a, b) ==
    IF ~IsNum(a) \/ ~IsNum(b) THEN NaN
    ELSE Frac(a.n * b.n, a.d * b.d)

FAdd(a, b) ==
    IF ~IsNum(a) \/ ~IsNum(b) THEN NaN
    ELSE Frac(a.n * b.d + b.n * a.d, a.d * b.d)

\* a < b of IEEE floats: false as soon as one side is NaN.
FLess(a, b) ==
    CASE a.t = "nan" \/ b.t = "nan" -> FALSE
      [] a.t = "min" -> b.t = "num"
      [] b.t = "min" -> FALSE
      [] OTHER -> a.n * b.d < b.n * a.d

\* a <= b of IEEE floats.
FLeq(a, b) == FLess(a, b) \/ (a.t # "nan" /\ a = b)

----------------------------------------------------------------------------
(* Vectors *)

\* The integer part of the square root (exact on the perfect squares the
\* vectors of Vetores produce).
ISqrt(s) == CHOOSE r \in 0..s : r * r <= s /\ s < (r + 1) * (r + 1)

\* np.array(dados['embeddings'], dtype=np.float32): the JSON numbers of the
\* rows as a float array.
ParaFloat32(linhas) ==
    [i \in DOMAIN linhas |-> << F(linhas[i][1]), F(linhas[i][2]) >>]

\* np.dot of two float vectors; the inner product of IndexFlatIP.
ProdutoInterno(a, b) == FAdd(FMul(a[1], b[1]), FMul(a[2], b[2]))

\* np.linalg.norm of one row.
NormaL2(v) ==
    LET s == ProdutoInterno(v, v)
    IN  IF IsNum(s) THEN Frac(ISqrt(s.n), ISqrt(s.d)) ELSE NaN

\* One row divided by its norm.
DividirPelaNorma(v) ==
    LET norma == NormaL2(v)
    IN  << FDiv(v[1], norma), FDiv(v[2], norma) >>

\* A faulty normalizar_embeddings that divides in place (embeddings /= normas):
\* the array passed is the normalized one after the call.
normalizar_embeddings_no_lugar(embeddings) ==
    LET ret == [i \in DOMAIN embeddings |-> DividirPelaNorma(embeddings[i])]
    IN  [ret |-> ret, arg |-> ret]

\* normalizar_embeddings: ret is the array returned (embeddings / normas, a
\* new array), arg is the array that was passed, as it is after the call.
normalizar_embeddings(embeddings) ==
    [ret |-> [i \in DOMAIN embeddings |-> DividirPelaNorma(embeddings[i])],
     arg |-> embeddings]

----------------------------------------------------------------------------
(* The FAISS index *)

\* The dimension of every embedding row: embeddings.shape[1].
Dimensao == 2

\* No index object: the local variable indice outside a mode.
SemIndice == [d |-> 0, xb |-> << >>]

\* faiss.IndexFlatIP(dimensao): a new index holding no vector.
IndexFlatIP(dimensao) == [d |-> dimensao, xb |-> << >>]

\* indice.add(x): the rows are appended to those the index holds.
IndexAdd(index, linhas) == [index EXCEPT !.xb = @ \o linhas]

\* A faulty criar_indice_faiss that adds the rows as they are, not normalized.
criar_indice_faiss_sem_normalizar(embeddings) ==
    IF Len(embeddings) = 0
    THEN [erro |-> TRUE, indice |-> SemIndice, arg |-> embeddings]
    ELSE [erro |-> FALSE,
          indice |-> IndexAdd(IndexFlatIP(Dimensao), embeddings),
          arg |-> embeddings]

\* criar_indice_faiss.  embeddings.shape[1] raises IndexError on the array
\* of an empty list, whose shape is (0,).  arg is the array that was passed,
\* as it is after the call.
criar_indice_faiss(embeddings) ==
    IF Len(embeddings) = 0
    THEN [erro |-> TRUE, indice |-> SemIndice, arg |-> embeddings]
    ELSE LET nz == normalizar_embeddings(embeddings)
         IN  [erro |-> FALSE,
              indice |-> IndexAdd(IndexFlatIP(Dimensao), nz.ret),
              arg |-> nz.arg]

\* The inner product of the query with every stored vector.
Pontuacoes(index, q) ==
    [i \in DOMAIN index.xb |-> ProdutoInterno(q, index.xb[i])]

\* The stored positions with a largest score among those of S.
Maximos(pont, S) == { i \in S : \A j \in S : ~FLess(pont[i], pont[j]) }

\* Every way of taking up to k positions of S by repeatedly taking one with
\* a largest score.  FAISS does not fix the order of equal scores (it
\* depends on the result handler of the build), so each order is possible.
RECURSIVE Selecoes(_, _, _)
Selecoes(pont, S, k) ==
    IF k = 0 \/ S = {} THEN { << >> }
    ELSE UNION { { << i >> \o r : r \in Selecoes(pont, S \ {i}, k - 1) } :
                 i \in Maximos(pont, S) }

\* A padding entry: label -1 with the lowest score.
Padding == [score |-> FMin, idx |-> -1]

\* indice.search(q, k), k >= 1: the possible results, each a sequence of k
\* entries (score, label) with 0-based labels.  A vector is admitted only
\* when threshold < score, which is false of a NaN score; the entries that
\* are left are padding.
IndexSearch(index, q, k) ==
    LET pont == Pontuacoes(index, q)
        admitidos == { i \in DOMAIN pont : IsNum(pont[i]) }
    IN  { [j \in 1..k |->
             IF j <= Len(sel)
             THEN [score |-> pont[sel[j]], idx |-> sel[j] - 1]
             ELSE Padding] :
          sel \in Selecoes(pont, admitidos, k) }

----------------------------------------------------------------------------
(* Text *)

Espaco == " "

\* str.strip(): the text without its leading and trailing white space.
RECURSIVE LStrip(_)
LStrip(s) ==
    IF s # << >> /\ Head(s) = Espaco THEN LStrip(Tail(s)) ELSE s

RECURSIVE RStrip(_)
RStrip(s) ==
    IF s # << >> /\ s[Len(s)] = Espaco
    THEN RStrip(SubSeq(s, 1, Len(s) - 1))
    ELSE s

Strip(s) == RStrip(LStrip(s))

\* self.modelo.encode([query]): the embedding model, an external
\* collaborator, as a fixed table from the text to its vector.
encode(query) ==
    IF query # << >> /\ Head(query) = "a" THEN << 1, 0 >> ELSE << 3, 4 >>

\* buscar_similares searching with the query embedding as the model gave it.
buscar_similares_sem_normalizar(query, indice_faiss, k) ==
    LET query_embedding == ParaFloat32(<< encode(query) >>)
    IN  IF k = 0
        THEN { [erro |-> TRUE, res |-> << >>], [erro |-> FALSE, res |-> << >>] }
        ELSE { [erro |-> FALSE, res |-> r] :
               r \in IndexSearch(indice_faiss, query_embedding[1], k) }

\* buscar_similares: the possible returns, (similaridades[0], indices[0])
\* zipped.  With k = 0, faiss raises (assert k > 0) in the builds that
\* check it and returns no entry in those that do not.
buscar_similares(query, indice_faiss, k) ==
    LET query_embedding == ParaFloat32(<< encode(query) >>)
        query_normalizado == normalizar_embeddings(query_embedding).ret
    IN  IF k = 0
        THEN { [erro |-> TRUE, res |-> << >>], [erro |-> FALSE, res |-> << >>] }
        ELSE { [erro |-> FALSE, res |-> r] :
               r \in IndexSearch(indice_faiss, query_normalizado[1], k) }

\* calcular_similaridade_cosseno.
calcular_similaridade_cosseno(embedding1, embedding2) ==
    LET emb1_norm == DividirPelaNorma(embedding1)
        emb2_norm == DividirPelaNorma(embedding2)
    IN  ProdutoInterno(emb1_norm, emb2_norm)

----------------------------------------------------------------------------
(* Transport documents *)

\* What a file of embeddings may hold.  tipo: "ausente" (no such file),
\* "invalido" (not JSON, not an object, no "embeddings" key, or rows of
\* different lengths: np.array raises) or "json".  The parallel metadata
\* arrays of a document are represented by whether they are present
\* (temMeta) and by their length (meta); item i of an array is its position.
Doc(tipo, emb, total, temMeta, meta) ==
    [tipo |-> tipo, emb |-> emb, total |-> total,
     temMeta |-> temMeta, meta |-> meta]

SemArquivo == Doc("nenhum", << >>, 0, FALSE, 0)

Colecoes == UNION { [1..n -> Vetores] : n \in 0..MaxN }

\* The JSON documents over one collection: well formed and, when no row is
\* the zero vector (one defect at a time), with a declared total one more
\* than the rows, with metadata arrays one shorter or one longer than the
\* rows, and without the metadata arrays.
Documentos(emb) ==
    LET n == Len(emb)
        semZero == \A i \in DOMAIN emb : emb[i] # << 0, 0 >>
    IN  { Doc("json", emb, n, TRUE, n) }
        \cup (IF semZero
              THEN { Doc("json", emb, n + 1, TRUE, n),
                     Doc("json", emb, n, TRUE, n + 1),
                     Doc("json", emb, n, FALSE, 0) }
              ELSE {})
        \cup (IF semZero /\ n > 0
              THEN { Doc("json", emb, n, TRUE, n - 1) }
              ELSE {})

Arquivos ==
    { Doc("ausente", << >>, 0, FALSE, 0), Doc("invalido", << >>, 0, FALSE, 0) }
    \cup UNION { Documentos(emb) : emb \in Colecoes }

\* The None that carregar_embeddings returns on an exception.
None == Doc("none", << >>, 0, FALSE, 0)

\* carregar_embeddings: open and json.load raise on a missing or malformed
\* file, dados['embeddings'] and np.array on a missing key or ragged rows;
\* every exception is caught and None returned.  Nothing else is checked.
carregar_embeddings(caminho_arquivo) ==
    IF caminho_arquivo.tipo # "json" THEN None
    ELSE [caminho_arquivo EXCEPT !.emb = ParaFloat32(caminho_arquivo.emb)]

----------------------------------------------------------------------------
(* The modes *)

\* What one mode invocation leaves: pc is "pausa" when the mode returned and
\* "crash" when an exception left it (main catches none); dados is the
\* dictionary as it is after the call.
Efeito(dados_embeddings) ==
    [pc |-> "pausa", dados |-> dados_embeddings, indice |-> SemIndice,
     codificou |-> << >>, resultado |-> << >>, scores_medios |-> << >>,
     pares |-> << >>, relatorio |-> << >>, saida |-> "resultados"]

\* lista[idx] of a Python list of length n: a negative idx counts from the
\* end; outside -n..n-1 it raises IndexError.
IndiceValido(n, idx) == -n <= idx /\ idx < n

Posicao(n, idx) == IF idx < 0 THEN n + idx ELSE idx

\* The loop that prints one entry per index: dados[<array>][idx] raises
\* KeyError when the array is missing and IndexError when idx is out of
\* range, which ends the loop with the entries printed so far.
RECURSIVE Imprimir(_, _, _)
Imprimir(dados_embeddings, idxs, itens) ==
    IF idxs = << >> THEN [erro |-> FALSE, itens |-> itens]
    ELSE IF \/ ~dados_embeddings.temMeta
            \/ ~IndiceValido(dados_embeddings.meta, Head(idxs))
    THEN [erro |-> TRUE, itens |-> itens]
    ELSE Imprimir(dados_embeddings, Tail(idxs),
                  Append(itens, Posicao(dados_embeddings.meta, Head(idxs))))

Indices(res) == [j \in DOMAIN res |-> res[j].idx]

\* The part of modo_faq and modo_filmes after k is known: the search and
\* the printing of its result.
BuscarEImprimir(base, query, k) ==
    { IF b.erro
      THEN [base EXCEPT !.pc = "crash", !.saida = "excecao",
                        !.codificou = << query >>]
      ELSE LET imp == Imprimir(base.dados, Indices(b.res), << >>)
           IN  [base EXCEPT !.pc = IF imp.erro THEN "crash" ELSE "pausa",
                            !.saida = IF imp.erro THEN "excecao" ELSE "resultados",
                            !.codificou = << query >>,
                            !.resultado = b.res,
                            !.relatorio = imp.itens] :
      b \in buscar_similares(query, base.indice, k) }

\* The k of modo_faq: buscar_similares(query, indice, k=3).
TopK == 3

\* A faulty modo_faq without the "if not query: return".
modo_faq_sem_guarda(dados_embeddings, linha) ==
    LET ci == criar_indice_faiss(dados_embeddings.emb)
        depois == [dados_embeddings EXCEPT !.emb = ci.arg]
        base == [Efeito(depois) EXCEPT !.indice = ci.indice]
        query == Strip(linha)
    IN  IF ci.erro
        THEN { [base EXCEPT !.pc = "crash", !.saida = "excecao"] }
        ELSE BuscarEImprimir(base, query, TopK)

\* modo_faq on the loaded dictionary, with the line typed as the question.
modo_faq(dados_embeddings, linha) ==
    LET ci == criar_indice_faiss(dados_embeddings.emb)
        depois == [dados_embeddings EXCEPT !.emb = ci.arg]
        base == [Efeito(depois) EXCEPT !.indice = ci.indice]
        query == Strip(linha)
    IN  IF ci.erro
        THEN { [base EXCEPT !.pc = "crash", !.saida = "excecao"] }
        ELSE IF query = << >>
        THEN { [base EXCEPT !.saida = "query_vazia"] }
        ELSE BuscarEImprimir(base, query, TopK)

\* modo_filmes: as modo_faq, with k = len(dados_embeddings['titulos']),
\* which raises KeyError when the array is missing.
modo_filmes(dados_embeddings, linha) ==
    LET ci == criar_indice_faiss(dados_embeddings.emb)
        depois == [dados_embeddings EXCEPT !.emb = ci.arg]
        base == [Efeito(depois) EXCEPT !.indice = ci.indice]
        query == Strip(linha)
        total_filmes == dados_embeddings.meta
    IN  IF ci.erro
        THEN { [base EXCEPT !.pc = "crash", !.saida = "excecao"] }
        ELSE IF query = << >>
        THEN { [base EXCEPT !.saida = "query_vazia"] }
        ELSE IF ~dados_embeddings.temMeta
        THEN { [base EXCEPT !.pc = "crash", !.saida = "excecao"] }
        ELSE BuscarEImprimir(base, query, total_filmes)

\* float(np.mean(similaridades)): the sum divided by the count; the mean of
\* no value is NaN (a warning, no exception).
RECURSIVE Soma(_)
Soma(valores) ==
    IF valores = << >> THEN F(0) ELSE FAdd(Head(valores), Soma(Tail(valores)))

Media(valores) ==
    IF valores = << >> THEN NaN ELSE FDiv(Soma(valores), F(Len(valores)))

\* A faulty inner loop without the "if i != j": item i is compared with
\* itself too.
RECURSIVE LacoInterno_ComProprio(_, _, _, _)
LacoInterno_ComProprio(embeddings, i, j, comparados) ==
    IF j = Len(embeddings) THEN comparados
    ELSE LacoInterno_ComProprio(embeddings, i, j + 1,
             Append(comparados,
                    [par |-> << i, j >>,
                     sim |-> calcular_similaridade_cosseno(
                                 embeddings[i + 1], embeddings[j + 1])]))

\* The inner loop of modo_anomalias, for j in range(total), from j on: the
\* pairs (i, j) compared so far with their similarities.
RECURSIVE LacoInterno(_, _, _, _)
LacoInterno(embeddings, i, j, comparados) ==
    IF j = Len(embeddings) THEN comparados
    ELSE IF i # j
    THEN LacoInterno(embeddings, i, j + 1,
             Append(comparados,
                    [par |-> << i, j >>,
                     sim |-> calcular_similaridade_cosseno(
                                 embeddings[i + 1], embeddings[j + 1])]))
    ELSE LacoInterno(embeddings, i, j + 1, comparados)

\* The outer loop, for i in range(total), from i on: scores collects the
\* (i, score_medio), pares the pairs compared.
RECURSIVE LacoExterno(_, _, _)
LacoExterno(embeddings, i, acc) ==
    IF i = Len(embeddings) THEN acc
    ELSE LET comparados == LacoInterno(embeddings, i, 0, << >>)
             similaridades == [x \in DOMAIN comparados |-> comparados[x].sim]
             score_medio == Media(similaridades)
         IN  LacoExterno(embeddings, i + 1,
                 [scores |-> Append(acc.scores,
                                    [idx |-> i, score |-> score_medio]),
                  pares |-> acc.pares \o
                            [x \in DOMAIN comparados |-> comparados[x].par]])

\* One step of list.sort: x goes before the first element whose key is
\* greater than its own, after its equals (the sort is stable).
RECURSIVE Inserir(_, _)
Inserir(ordenados, x) ==
    IF ordenados = << >> THEN << x >>
    ELSE IF FLess(x.score, Head(ordenados).score) THEN << x >> \o ordenados
    ELSE << Head(ordenados) >> \o Inserir(Tail(ordenados), x)

\* scores_medios.sort(key=lambda x: x[1]).
RECURSIVE Ordenar(_, _)
Ordenar(lista, ordenados) ==
    IF lista = << >> THEN ordenados
    ELSE Ordenar(Tail(lista), Inserir(ordenados, Head(lista)))

\* The number of entries modo_anomalias prints: scores_medios[:3].
NumAnomalias == 3

Prefixo(lista, n) == SubSeq(lista, 1, IF Len(lista) < n THEN Len(lista) ELSE n)

\* modo_anomalias on the loaded dictionary.
modo_anomalias(dados_embeddings) ==
    LET lacos == LacoExterno(dados_embeddings.emb, 0,
                             [scores |-> << >>, pares |-> << >>])
        ordenados == Ordenar(lacos.scores, << >>)
        imp == Imprimir(dados_embeddings,
                        Indices(Prefixo(ordenados, NumAnomalias)), << >>)
    IN  [Efeito(dados_embeddings) EXCEPT
            !.pc = IF imp.erro THEN "crash" ELSE "pausa",
            !.saida = IF imp.erro THEN "excecao" ELSE "resultados",
            !.scores_medios = ordenados,
            !.pares = lacos.pares,
            !.relatorio = imp.itens]

----------------------------------------------------------------------------
(* The converter: texts *)

MaxLinhas == 4

NovaLinha == "\n"

\* The first position of s that holds c.
Primeiro(s, c) ==
    CHOOSE p \in DOMAIN s : s[p] = c /\ \A q \in 1..(p - 1) : s[q] # c

Contem(s, c) == \E p \in DOMAIN s : s[p] = c

\* texto.split('\n'): the pieces between the line breaks, one piece more
\* than there are line breaks.
RECURSIVE Split(_)
Split(s) ==
    IF ~Contem(s, NovaLinha) THEN << s >>
    ELSE LET p == Primeiro(s, NovaLinha)
         IN  << SubSeq(s, 1, p - 1) >> \o Split(SubSeq(s, p + 1, Len(s)))

\* texto.split('\n', 1): at most one cut, at the first line break.
SplitUmaVez(s) ==
    IF ~Contem(s, NovaLinha) THEN << s >>
    ELSE LET p == Primeiro(s, NovaLinha)
         IN  << SubSeq(s, 1, p - 1), SubSeq(s, p + 1, Len(s)) >>

\* sep.join(partes).
RECURSIVE Join(_, _)
Join(sep, partes) ==
    IF partes = << >> THEN << >>
    ELSE IF Len(partes) = 1 THEN partes[1]
    ELSE partes[1] \o << sep >> \o Join(sep, Tail(partes))

\* str.strip() of a text of several lines: line breaks are white space too.
EmBranco(c) == c \in { Espaco, NovaLinha }

RECURSIVE StripTexto(_)
StripTexto(s) ==
    IF s # << >> /\ EmBranco(Head(s)) THEN StripTexto(Tail(s))
    ELSE IF s # << >> /\ EmBranco(s[Len(s)])
    THEN StripTexto(SubSeq(s, 1, Len(s) - 1))
    ELSE s

EhDigito(c) == c \in { "0", "1", "2", "3", "4", "5", "6", "7", "8", "9" }

\* padrao_numero.match(linha), padrao_numero = ^\d+\. : one digit or more
\* at the start of the line, then a dot.
padrao_numero(linha) ==
    \E n \in 1..(Len(linha) - 1) :
       /\ \A j \in 1..n : EhDigito(linha[j])
       /\ linha[n + 1] = "."

\* linha.endswith('?')
endswith(linha, c) == linha # << >> /\ linha[Len(linha)] = c

\* The first loop of extrair_perguntas_respostas_de_texto: the stripped
\* lines that are not empty, without the first of them (the title).
RECURSIVE LinhasLimpas(_, _)
LinhasLimpas(linhas, pulou_titulo) ==
    IF linhas = << >> THEN << >>
    ELSE LET linha_limpa == Strip(Head(linhas))
         IN  IF linha_limpa = << >>
             THEN LinhasLimpas(Tail(linhas), pulou_titulo)
             ELSE IF ~pulou_titulo
             THEN LinhasLimpas(Tail(linhas), TRUE)
             ELSE << linha_limpa >> \o LinhasLimpas(Tail(linhas), TRUE)

\* The loop that accumulates the question: i (0-based, as in the code)
\* advances while the line before it does not end with '?'.
RECURSIVE FimDaPergunta(_, _)
FimDaPergunta(linhas_limpas, i) ==
    IF i < Len(linhas_limpas) /\ ~endswith(linhas_limpas[i], "?")
    THEN FimDaPergunta(linhas_limpas, i + 1)
    ELSE i

\* The loop that accumulates the answer: i advances up to the next line
\* that matches the number pattern, or to the end.
RECURSIVE FimDaResposta(_, _)
FimDaResposta(linhas_limpas, i) ==
    IF i < Len(linhas_limpas) /\ ~padrao_numero(linhas_limpas[i + 1])
    THEN FimDaResposta(linhas_limpas, i + 1)
    ELSE i

\* The main loop with the test "if pergunta_completa.strip() and
\* resposta_completa.strip()" replaced by the test of the question alone.
RECURSIVE LacoDeExtracao_SemTesteDaResposta(_, _, _, _)
LacoDeExtracao_SemTesteDaResposta(linhas_limpas, i, perguntas, respostas) ==
    IF i >= Len(linhas_limpas)
    THEN [perguntas |-> perguntas, respostas |-> respostas]
    ELSE IF padrao_numero(linhas_limpas[i + 1])
    THEN LET iq == FimDaPergunta(linhas_limpas, i + 1)
             ir == FimDaResposta(linhas_limpas, iq)
             pergunta_completa ==
                 Join(Espaco, SubSeq(linhas_limpas, i + 1, iq))
             resposta_completa ==
                 Join(Espaco, SubSeq(linhas_limpas, iq + 1, ir))
         IN  IF Strip(pergunta_completa) # << >>
             THEN LacoDeExtracao_SemTesteDaResposta(linhas_limpas, ir,
                      Append(perguntas, Strip(pergunta_completa)),
                      Append(respostas, Strip(resposta_completa)))
             ELSE LacoDeExtracao_SemTesteDaResposta(linhas_limpas, ir,
                      perguntas, respostas)
    ELSE LacoDeExtracao_SemTesteDaResposta(linhas_limpas, i + 1,
             perguntas, respostas)

\* The main loop of extrair_perguntas_respostas_de_texto, from position i
\* (0-based) with the lists built so far.
RECURSIVE LacoDeExtracao(_, _, _, _)
LacoDeExtracao(linhas_limpas, i, perguntas, respostas) ==
    IF i >= Len(linhas_limpas)
    THEN [perguntas |-> perguntas, respostas |-> respostas]
    ELSE IF padrao_numero(linhas_limpas[i + 1])
    THEN LET iq == FimDaPergunta(linhas_limpas, i + 1)
             ir == FimDaResposta(linhas_limpas, iq)
             pergunta_completa ==
                 Join(Espaco, SubSeq(linhas_limpas, i + 1, iq))
             resposta_completa ==
                 Join(Espaco, SubSeq(linhas_limpas, iq + 1, ir))
         IN  IF Strip(pergunta_completa) # << >>
                /\ Strip(resposta_completa) # << >>
             THEN LacoDeExtracao(linhas_limpas, ir,
                      Append(perguntas, Strip(pergunta_completa)),
                      Append(respostas, Strip(resposta_completa)))
             ELSE LacoDeExtracao(linhas_limpas, ir, perguntas, respostas)
    ELSE LacoDeExtracao(linhas_limpas, i + 1, perguntas, respostas)

\* extrair_perguntas_respostas_de_texto: the two lists it returns.
extrair_perguntas_respostas_de_texto(texto) ==
    LacoDeExtracao(LinhasLimpas(Split(texto), FALSE), 0, << >>, << >>)

\* The lines the texts of the extraction are made of: plain, ending with
\* '?', numbered after a space, numbered and ending with '?', a digit
\* without the dot, and blank.
Linhas ==
    { << "x" >>, << "a", "?" >>, << " ", "1", "." >>, << "2", ".", "?" >>,
      << "1", "x" >>, << " " >> }

\* The texts of up to MaxLinhas lines.
Textos ==
    { Join(NovaLinha, ls) :
        ls \in UNION { [1..n -> Linhas] : n \in 0..MaxLinhas } }

----------------------------------------------------------------------------
(* The converter: input files and the documents written *)

MaxArquivos == 3

MaxFeedbacks == 2

\* A text given by its lines.
T(ls) == Join(NovaLinha, ls)

\* What a PDF of the FAQ directory may be: unreadable (PdfReader or
\* extract_text raises), or readable with the text of each page.  One has
\* no page, one a title and a question without answer, one a title and one
\* pair, one two pairs over two pages with a question of two lines.
Pdfs ==
    { [legivel |-> FALSE, paginas |-> << >>],
      [legivel |-> TRUE, paginas |-> << >>],
      [legivel |-> TRUE,
       paginas |-> << T(<< << "x" >>, << "2", ".", "?" >> >>) >>],
      [legivel |-> TRUE,
       paginas |-> << T(<< << "x" >>, << "1", ".", "?" >>, << "a" >> >>) >>],
      [legivel |-> TRUE,
       paginas |-> << T(<< << "x" >>, << " ", "1", "." >> >>),
                      T(<< << "x", "?" >>, << "x" >>, << "2", ".", "?" >>,
                           << "a" >>, << " " >> >>) >>] }

\* What a TXT of the films directory may be: unreadable, empty, blank, a
\* title alone, a title and a description, the same with blank lines.
Txts ==
    { [legivel |-> FALSE, conteudo |-> << >>],
      [legivel |-> TRUE, conteudo |-> << >>],
      [legivel |-> TRUE, conteudo |-> T(<< << " " >>, << >> >>)],
      [legivel |-> TRUE, conteudo |-> T(<< << "a" >> >>)],
      [legivel |-> TRUE, conteudo |-> T(<< << "x" >>, << "a" >> >>)],
      [legivel |-> TRUE,
       conteudo |-> T(<< << " ", "a", " " >>, << >>, << "x" >>,
                          << "a" >>, << >> >>)] }

\* The entries of the "feedbacks" list: two complete ones and one without
\* the key 'texto'.
Feedbacks ==
    { [id |-> 1, usuario |-> "u1", data |-> "d1", texto |-> << "a" >>],
      [id |-> 2, usuario |-> "u2", data |-> "d2", texto |-> << "x" >>],
      [id |-> 3, usuario |-> "u3", data |-> "d3"] }

\* What feedbacks.json may be: missing, not JSON, a JSON object without
\* the key 'feedbacks', or one with a list of up to MaxFeedbacks entries.
Jsons ==
    { [tipo |-> "ausente", feedbacks |-> << >>],
      [tipo |-> "invalido", feedbacks |-> << >>],
      [tipo |-> "sem_chave", feedbacks |-> << >>] }
    \cup { [tipo |-> "json", feedbacks |-> fs] :
           fs \in UNION { [1..n -> Feedbacks] : n \in 0..MaxFeedbacks } }

\* The files of a directory in the order of sorted(glob): the stem of a
\* file is here its position.
Diretorios(Arqs) ==
    UNION { [1..n -> Arqs] : n \in 0..MaxArquivos }

\* A document handed to salvar_embeddings: arrays holds the parallel
\* metadata arrays by key.
Documento(tipo, total, arrays, embeddings) ==
    [tipo |-> tipo, total |-> total, arrays |-> arrays,
     embeddings |-> embeddings]

\* No document: the function returned before salvar_embeddings.
NenhumDocumento == Documento("nenhum", 0, << >>, << >>)

\* extrair_texto_pdf: the texts of the pages joined by line breaks and
\* stripped; '' on an exception.
extrair_texto_pdf(pdf) ==
    IF ~pdf.legivel THEN << >>
    ELSE StripTexto(Join(NovaLinha, pdf.paginas))

\* extrair_texto_txt: the content stripped; '' on an exception.
extrair_texto_txt(txt) ==
    IF ~txt.legivel THEN << >> ELSE StripTexto(txt.conteudo)

\* carregar_feedbacks_json: dados.get('feedbacks', []); [] on an exception.
carregar_feedbacks_json(json) ==
    IF json.tipo = "json" THEN json.feedbacks ELSE << >>

\* gerar_embeddings: modelo.encode(textos), one row for each text.
gerar_embeddings(textos) == [i \in DOMAIN textos |-> encode(textos[i])]

\* [x] * n
Repetir(x, n) == [i \in 1..n |-> x]

\* The loop of processar_faqs with fontes_todas.append(stem) for each file.
RECURSIVE LacoDeFaqs_UmaFontePorArquivo(_, _, _, _, _)
LacoDeFaqs_UmaFontePorArquivo(arquivos_pdf, j, perguntas_todas, respostas_todas, fontes_todas) ==
    IF j > Len(arquivos_pdf)
    THEN [perguntas |-> perguntas_todas, respostas |-> respostas_todas,
          fontes |-> fontes_todas]
    ELSE LET texto == extrair_texto_pdf(arquivos_pdf[j])
             pr == extrair_perguntas_respostas_de_texto(texto)
         IN  IF texto = << >>
             THEN LacoDeFaqs_UmaFontePorArquivo(arquivos_pdf, j + 1,
                      perguntas_todas, respostas_todas, fontes_todas)
             ELSE LacoDeFaqs_UmaFontePorArquivo(arquivos_pdf, j + 1,
                      perguntas_todas \o pr.perguntas,
                      respostas_todas \o pr.respostas,
                      Append(fontes_todas, j))

\* The loop of processar_faqs over the PDFs, from file j.
RECURSIVE LacoDeFaqs(_, _, _, _, _)
LacoDeFaqs(arquivos_pdf, j, perguntas_todas, respostas_todas, fontes_todas) ==
    IF j > Len(arquivos_pdf)
    THEN [perguntas |-> perguntas_todas, respostas |-> respostas_todas,
          fontes |-> fontes_todas]
    ELSE LET texto == extrair_texto_pdf(arquivos_pdf[j])
             pr == extrair_perguntas_respostas_de_texto(texto)
         IN  IF texto = << >>
             THEN LacoDeFaqs(arquivos_pdf, j + 1, perguntas_todas,
                             respostas_todas, fontes_todas)
             ELSE LacoDeFaqs(arquivos_pdf, j + 1,
                             perguntas_todas \o pr.perguntas,
                             respostas_todas \o pr.respostas,
                             fontes_todas
                                \o Repetir(j, Len(pr.perguntas)))

\* processar_faqs: the document it saves, if any.
processar_faqs(arquivos_pdf) ==
    IF arquivos_pdf = << >> THEN NenhumDocumento
    ELSE LET todas == LacoDeFaqs(arquivos_pdf, 1, << >>, << >>, << >>)
             embeddings == gerar_embeddings(todas.respostas)
         IN  IF todas.perguntas = << >> THEN NenhumDocumento
             ELSE Documento("faq", Len(todas.perguntas), todas, embeddings)

\* The title and the description processar_filmes takes from a text.
TituloEDescricao(texto) ==
    LET linhas == SplitUmaVez(texto)
    IN  [titulo |-> Strip(linhas[1]),
         descricao |-> IF Len(linhas) > 1 THEN StripTexto(linhas[2])
                       ELSE texto]

\* The loop of processar_filmes over the TXTs, from file j.
RECURSIVE LacoDeFilmes(_, _, _, _)
LacoDeFilmes(arquivos_txt, j, titulos, descricoes) ==
    IF j > Len(arquivos_txt)
    THEN [titulos |-> titulos, descricoes |-> descricoes]
    ELSE LET texto == extrair_texto_txt(arquivos_txt[j])
             td == TituloEDescricao(texto)
         IN  IF texto = << >>
             THEN LacoDeFilmes(arquivos_txt, j + 1, titulos, descricoes)
             ELSE LacoDeFilmes(arquivos_txt, j + 1,
                               Append(titulos, td.titulo),
                               Append(descricoes, td.descricao))

\* processar_filmes: the document it saves, if any.
processar_filmes(arquivos_txt) ==
    IF arquivos_txt = << >> THEN NenhumDocumento
    ELSE LET listas == LacoDeFilmes(arquivos_txt, 1, << >>, << >>)
             embeddings == gerar_embeddings(listas.descricoes)
         IN  IF listas.descricoes = << >> THEN NenhumDocumento
             ELSE Documento("filmes", Len(listas.titulos), listas,
                            embeddings)

ChavesDeFeedback == { "texto", "id", "usuario", "data" }

\* processar_avaliacoes: erro when feedback[<key>] raises KeyError, which
\* nothing catches; otherwise the document it saves, if any.
processar_avaliacoes(arquivo_json) ==
    LET feedbacks == carregar_feedbacks_json(arquivo_json)
    IN  IF feedbacks = << >>
        THEN [erro |-> FALSE, doc |-> NenhumDocumento]
        ELSE IF \E i \in DOMAIN feedbacks :
                   ~(ChavesDeFeedback \subseteq DOMAIN feedbacks[i])
        THEN [erro |-> TRUE, doc |-> NenhumDocumento]
        ELSE LET textos == [i \in DOMAIN feedbacks |-> feedbacks[i].texto]
                 ids == [i \in DOMAIN feedbacks |-> feedbacks[i].id]
                 usuarios ==
                     [i \in DOMAIN feedbacks |-> feedbacks[i].usuario]
                 datas == [i \in DOMAIN feedbacks |-> feedbacks[i].data]
                 embeddings == gerar_embeddings(textos)
             IN  [erro |-> FALSE,
                  doc |-> Documento("avaliacoes", Len(feedbacks),
                                    [ids |-> ids, usuarios |-> usuarios,
                                     datas |-> datas, textos |-> textos],
                                    embeddings)]

----------------------------------------------------------------------------
(* The menu loop of main *)

VARIABLES
    pc,             \* where main is: "inicio", "menu" (at the menu prompt),
                    \* "query" (at the query prompt of a mode), "pausa"
                    \* (at the prompt of line 372), "fim" or "crash"
    escolha,        \* main's local escolha: what exibir_menu returned last
    arquivo,        \* the file carregar_embeddings read last
    dados,          \* main's local dados: what carregar_embeddings returned
                    \* last, as the mode left it
    entrada,        \* the lines the mode read as its query (none or one)
    indice,         \* the index the mode built
    codificou,      \* the texts passed to modelo.encode
    resultado,      \* what buscar_similares returned
    scores_medios,  \* the sorted list of modo_anomalias
    pares,          \* the pairs modo_anomalias compared, in order
    relatorio,      \* the positions of the items printed, in order
    saida,          \* the kind of message the iteration ended with
    extracao,       \* one call of extrair_perguntas_respostas_de_texto
    conversao       \* the run of the converter's main

vars == << pc, escolha, arquivo, dados, entrada, indice, codificou, resultado,
           scores_medios, pares, relatorio, saida, extracao, conversao >>

\* The variables of the search program and those of the converter, which
\* are two programs that never run together.
varsBusca == << pc, escolha, arquivo, dados, entrada, indice, codificou,
               resultado, scores_medios, pares, relatorio, saida >>

varsConversor == << extracao, conversao >>

\* The converter before it runs.
ExtracaoParada ==
    [pc |-> "parada", texto |-> << >>, perguntas |-> << >>,
     respostas |-> << >>]

ConversaoParada ==
    [pc |-> "parada", arquivos |-> << >>, escrito |-> NenhumDocumento]

\* The lines typed at the menu prompt.
LinhasMenu ==
    { << "1" >>, << "2" >>, << "3" >>, << "3", " " >>, << "0" >>,
      << " ", "0" >>, << >>, << "4" >>, << "1", "2" >> }

\* The lines typed at the query prompt of modo_faq and modo_filmes.
LinhasQuery ==
    { << >>, << " " >>, << "a", " " >>, << " ", "b" >> }

\* What a mode invocation holds and reports; its locals are gone once it
\* returned.
locaisDoModo ==
    << entrada, indice, codificou, resultado, scores_medios, pares,
       relatorio >>

\* main's locals escolha and dados before their first assignment.
SemEscolha == << "unbound" >>

SemDados == Doc("unbound", << >>, 0, FALSE, 0)

\* main is at p and nothing of a mode invocation is there; main's own
\* locals escolha and dados stay what they were, as does the file read.
Limpo(p) ==
    /\ pc' = p
    /\ entrada' = << >>
    /\ indice' = SemIndice
    /\ codificou' = << >>
    /\ resultado' = << >>
    /\ scores_medios' = << >>
    /\ pares' = << >>
    /\ relatorio' = << >>
    /\ UNCHANGED << escolha, arquivo, dados >>
    /\ UNCHANGED varsConversor

\* The search program before main runs.
InicioDaBusca ==
    /\ pc = "inicio"
    /\ escolha = SemEscolha
    /\ arquivo = SemArquivo
    /\ dados = SemDados
    /\ entrada = << >>
    /\ indice = SemIndice
    /\ codificou = << >>
    /\ resultado = << >>
    /\ scores_medios = << >>
    /\ pares = << >>
    /\ relatorio = << >>
    /\ saida = ""

Init ==
    /\ InicioDaBusca
    /\ extracao = ExtracaoParada
    /\ conversao = ConversaoParada

\* main before the loop: it returns when one of the three files is missing.
Iniciar ==
    /\ pc = "inicio"
    /\ \E faltando \in BOOLEAN :
          /\ Limpo(IF faltando THEN "fim" ELSE "menu")
          /\ saida' = IF faltando THEN "arquivos_faltando" ELSE ""

\* escolha = exibir_menu(): a line typed at the menu prompt whose strip is
\* opcao is bound to main's escolha.
LeEscolha(opcao) ==
    /\ pc = "menu"
    /\ opcao \in { Strip(linha) : linha \in LinhasMenu }
    /\ escolha' = opcao

\* Every file with what carregar_embeddings returns for it.
Cargas ==
    { [arquivo |-> arq, dados |-> carregar_embeddings(arq)] :
      arq \in Arquivos }

\* dados = buscador.carregar_embeddings(...) returned None: the error was
\* printed, "if dados" is false and the pause follows.
ErroDeCarga == [Efeito(None) EXCEPT !.saida = "erro_carga"]

\* Whether the mode reads its query: it does unless criar_indice_faiss raised.
LeQuery(d) == ~criar_indice_faiss(d.emb).erro

\* A mode entered with d, up to its query prompt: the index is built and
\* the mode waits in input(); when criar_indice_faiss raises, the mode ends
\* there.
AtePrompt(d, modo) ==
    IF LeQuery(d)
    THEN LET ci == criar_indice_faiss(d.emb)
         IN  { [Efeito([d EXCEPT !.emb = ci.arg]) EXCEPT
                   !.pc = "query", !.indice = ci.indice, !.saida = ""] }
    ELSE modo

\* One branch of main from the file it reads to the next prompt: every
\* file with an effect of the step the branch makes with its dados.
RamoFaq ==
    UNION { { [arquivo |-> c.arquivo, ef |-> ef] :
              ef \in IF c.dados = None THEN { ErroDeCarga }
                     ELSE AtePrompt(c.dados, modo_faq(c.dados, << >>)) } :
            c \in Cargas }

RamoFilmes ==
    UNION { { [arquivo |-> c.arquivo, ef |-> ef] :
              ef \in IF c.dados = None THEN { ErroDeCarga }
                     ELSE AtePrompt(c.dados, modo_filmes(c.dados, << >>)) } :
            c \in Cargas }

RamoAnomalias ==
    { [arquivo |-> c.arquivo,
       ef |-> IF c.dados = None THEN ErroDeCarga
              ELSE modo_anomalias(c.dados)] :
      c \in Cargas }

\* The state a mode invocation ends in, from its effect.
Aplicar(linhas, ef) ==
    /\ pc' = ef.pc
    /\ dados' = ef.dados
    /\ entrada' = linhas
    /\ indice' = ef.indice
    /\ codificou' = ef.codificou
    /\ resultado' = ef.resultado
    /\ scores_medios' = ef.scores_medios
    /\ pares' = ef.pares
    /\ relatorio' = ef.relatorio
    /\ saida' = ef.saida

\* escolha == '1': the file is read into main's dados and modo_faq(dados)
\* runs up to its query prompt.
EscolhaFaq ==
    /\ LeEscolha(<< "1" >>)
    /\ \E r \in RamoFaq : arquivo' = r.arquivo /\ Aplicar(<< >>, r.ef)
    /\ UNCHANGED varsConversor

\* modo_faq from the line typed at its query prompt to its return.
ConsultaFaq ==
    /\ pc = "query"
    /\ escolha = << "1" >>
    /\ \E q \in LinhasQuery :
          \E ef \in modo_faq(dados, q) : Aplicar(<< q >>, ef)
    /\ UNCHANGED << escolha, arquivo >>
    /\ UNCHANGED varsConversor

\* escolha == '2': the file is read into main's dados and modo_filmes(dados)
\* runs up to its query prompt.
EscolhaFilmes ==
    /\ LeEscolha(<< "2" >>)
    /\ \E r \in RamoFilmes : arquivo' = r.arquivo /\ Aplicar(<< >>, r.ef)
    /\ UNCHANGED varsConversor

\* modo_filmes from the line typed at its query prompt to its return.
ConsultaFilmes ==
    /\ pc = "query"
    /\ escolha = << "2" >>
    /\ \E q \in LinhasQuery :
          \E ef \in modo_filmes(dados, q) : Aplicar(<< q >>, ef)
    /\ UNCHANGED << escolha, arquivo >>
    /\ UNCHANGED varsConversor

\* escolha == '3': the file is read into main's dados and
\* modo_anomalias(dados) runs; it reads no line.
EscolhaAnomalias ==
    /\ LeEscolha(<< "3" >>)
    /\ \E r \in RamoAnomalias : arquivo' = r.arquivo /\ Aplicar(<< >>, r.ef)
    /\ UNCHANGED varsConversor

\* escolha == '0': break, without the pause; dados is what it was.
EscolhaSair ==
    /\ LeEscolha(<< "0" >>)
    /\ pc' = "fim"
    /\ saida' = "ate_logo"
    /\ UNCHANGED << arquivo, dados, locaisDoModo >>
    /\ UNCHANGED varsConversor

\* Any other line: "Opcao invalida"; dados is what it was.
EscolhaInvalida ==
    /\ pc = "menu"
    /\ \E linha \in LinhasMenu :
          /\ Strip(linha) \notin { << "0" >>, << "1" >>, << "2" >>, << "3" >> }
          /\ escolha' = Strip(linha)
    /\ pc' = "pausa"
    /\ saida' = "opcao_invalida"
    /\ UNCHANGED << arquivo, dados, locaisDoModo >>
    /\ UNCHANGED varsConversor

\* ENTER at "Pressione ENTER para voltar ao menu": the mode's locals are
\* gone and the next iteration starts with main's escolha and dados as the
\* last one left them.
Voltar ==
    /\ pc = "pausa"
    /\ Limpo("menu")
    /\ saida' = ""

Next ==
    \/ Iniciar
    \/ EscolhaFaq
    \/ ConsultaFaq
    \/ EscolhaFilmes
    \/ ConsultaFilmes
    \/ EscolhaAnomalias
    \/ EscolhaSair
    \/ EscolhaInvalida
    \/ Voltar

Spec == Init /\ [][Next]_vars

\* The loop with a user who answers the prompt "Pressione ENTER para voltar
\* ao menu": input() returns and the next iteration starts.
SpecJusta == Spec /\ WF_vars(Voltar)

----------------------------------------------------------------------------
(* One call of extrair_perguntas_respostas_de_texto *)

\* The call with its argument, any of the texts.
InitExtracao ==
    /\ InicioDaBusca
    /\ conversao = ConversaoParada
    /\ \E texto \in Textos :
          extracao = [pc |-> "chamada", texto |-> texto,
                      perguntas |-> << >>, respostas |-> << >>]

\* The call returns its two lists.
Extrair ==
    /\ extracao.pc = "chamada"
    /\ LET pr == extrair_perguntas_respostas_de_texto(extracao.texto)
       IN  extracao' = [extracao EXCEPT !.pc = "retorno",
                                        !.perguntas = pr.perguntas,
                                        !.respostas = pr.respostas]
    /\ UNCHANGED << varsBusca, conversao >>

NextExtracao == Extrair

SpecExtracao == InitExtracao /\ [][NextExtracao]_vars

----------------------------------------------------------------------------
(* The main of the converter *)

\* conversao.pc is the call main makes next ("faqs", "filmes",
\* "avaliacoes"), "fim" after the last one or "crash" after an exception;
\* arquivos is what the last call read and escrito the document it saved.
InitConversor ==
    /\ InicioDaBusca
    /\ extracao = ExtracaoParada
    /\ conversao = [ConversaoParada EXCEPT !.pc = "faqs"]

ProcessarFaqs ==
    /\ conversao.pc = "faqs"
    /\ \E arquivos_pdf \in Diretorios(Pdfs) :
          conversao' = [pc |-> "filmes", arquivos |-> arquivos_pdf,
                        escrito |-> processar_faqs(arquivos_pdf)]
    /\ UNCHANGED << varsBusca, extracao >>

ProcessarFilmes ==
    /\ conversao.pc = "filmes"
    /\ \E arquivos_txt \in Diretorios(Txts) :
          conversao' = [pc |-> "avaliacoes", arquivos |-> arquivos_txt,
                        escrito |-> processar_filmes(arquivos_txt)]
    /\ UNCHANGED << varsBusca, extracao >>

ProcessarAvaliacoes ==
    /\ conversao.pc = "avaliacoes"
    /\ \E arquivo_json \in Jsons :
          LET r == processar_avaliacoes(arquivo_json)
          IN  conversao' = [pc |-> IF r.erro THEN "crash" ELSE "fim",
                            arquivos |-> << arquivo_json >>,
                            escrito |-> r.doc]
    /\ UNCHANGED << varsBusca, extracao >>

NextConversor ==
    \/ ProcessarFaqs
    \/ ProcessarFilmes
    \/ ProcessarAvaliacoes

SpecConversor == InitConversor /\ [][NextConversor]_vars

----------------------------------------------------------------------------
(* What the properties below read from a state *)

\* The number of embedding rows of the loaded collection.
NumLinhas == Len(dados.emb)

\* The query of this iteration: the line read, stripped.
QueryLida == IF entrada = << >> THEN << >> ELSE Strip(entrada[1])

\* A search was made in this iteration (buscar_similares was entered).
Buscou == codificou # << >>

\* The iteration is over: main is at the pause, or an exception left it.
FimDaIteracao == pc \in { "pausa", "crash" }

\* The k the search of this iteration was made with.
KUsado == IF escolha = << "1" >> THEN TopK ELSE dados.meta

Min(a, b) == IF a < b THEN a ELSE b

\* The labels of the entries of the search result.
Rotulos == { resultado[j].idx : j \in DOMAIN resultado }

\* The cosine of the query and of item i of the collection, from the
\* definition dot(a, b) / (||a|| ||b||).
Cosseno(a, b) ==
    FDiv(ProdutoInterno(a, b), FMul(NormaL2(a), NormaL2(b)))

CossenoDaQuery(i) ==
    Cosseno(ParaFloat32(<< encode(QueryLida) >>)[1], dados.emb[i + 1])

\* The document read satisfies the invariant of the transport format:
\* len(embeddings) == total == len(each parallel array).
BemFormado ==
    /\ arquivo.tipo = "json"
    /\ arquivo.total = Len(arquivo.emb)
    /\ arquivo.temMeta
    /\ arquivo.meta = Len(arquivo.emb)

\* Some row of the loaded collection has L2 norm 0.
TemNormaZero ==
    \E i \in DOMAIN dados.emb : NormaL2(dados.emb[i]) = F(0)

----------------------------------------------------------------------------
(* C1 *)

\* C1: a top-k search on a collection of N >= 1 vectors with k >= 1 returns
\* exactly min(k, N) results, each a valid position 0..N-1; top-k mode (k = 3)
\* on fewer than 3 items reports only N items.  Stated on the well-formed
\* documents without a zero vector, where no other defect interferes.
C1_MinKN ==
    (Buscou /\ BemFormado /\ ~TemNormaZero /\ NumLinhas >= 1 /\ KUsado >= 1) =>
        /\ Len(resultado) = Min(KUsado, NumLinhas)
        /\ Rotulos \subseteq 0..(NumLinhas - 1)
        /\ (escolha = << "1" >> /\ NumLinhas < TopK
                => Len(relatorio) = NumLinhas)

----------------------------------------------------------------------------
(* C2 *)

\* The items of the collection that the search result does not hold.
Fora == (0..(NumLinhas - 1)) \ Rotulos

\* C2 as claimed: the items of a top-k result come by descending score, two
\* items of equal score in their insertion order, and no item outside the
\* result has a score strictly greater than one inside it.
C2_EmpateEstavel ==
    Buscou =>
        /\ \A j, l \in DOMAIN resultado :
              (j < l /\ resultado[j].idx >= 0 /\ resultado[l].idx >= 0) =>
                 /\ FLeq(resultado[l].score, resultado[j].score)
                 /\ (resultado[l].score = resultado[j].score
                        => resultado[j].idx < resultado[l].idx)
        /\ \A i \in Fora : \A j \in DOMAIN resultado :
              resultado[j].idx >= 0
                  => ~FLess(resultado[j].score, CossenoDaQuery(i))

\* C2 amended: the scores returned never increase along the result (the
\* padding entries, of the lowest score, come last), the score of an item
\* is the cosine of the query and the item, and no item outside the result
\* has a score strictly greater than one inside it; the order of two items
\* of equal score is not fixed.
C2_Decrescente ==
    Buscou =>
        /\ \A j, l \in DOMAIN resultado :
              j < l => ~FLess(resultado[j].score, resultado[l].score)
        /\ \A j \in DOMAIN resultado :
              resultado[j].idx >= 0 =>
                 /\ resultado[j].idx < NumLinhas
                 /\ resultado[j].score = CossenoDaQuery(resultado[j].idx)
        /\ \A i \in Fora : \A j \in DOMAIN resultado :
              resultado[j].idx >= 0
                  => ~FLess(resultado[j].score, CossenoDaQuery(i))

\* A search that left an item out and returned two items of equal score
\* against their insertion order, before an item of a lower score.
C2_Witness ==
    /\ Buscou
    /\ pc = "pausa"
    /\ BemFormado
    /\ \E i \in Fora : IsNum(CossenoDaQuery(i))
    /\ \E j, l \in DOMAIN resultado :
          /\ j < l
          /\ resultado[l].idx >= 0
          /\ resultado[j].score = resultado[l].score
          /\ resultado[j].idx > resultado[l].idx
    /\ \E j, l \in DOMAIN resultado :
          /\ resultado[l].idx >= 0
          /\ FLess(resultado[l].score, resultado[j].score)

----------------------------------------------------------------------------
(* C3 *)

\* C3: full-ranking mode with a non-empty query searches with k equal to the
\* number N of embedding rows and returns every index 0..N-1 exactly once.
\* Stated on the well-formed documents.
C3_Permutacao ==
    (escolha = << "2" >> /\ BemFormado /\ QueryLida # << >>) =>
        /\ Buscou
        /\ KUsado = NumLinhas
        /\ Len(resultado) = NumLinhas
        /\ Rotulos = 0..(NumLinhas - 1)

----------------------------------------------------------------------------
(* C4 *)

\* The sum of the cosines of item i and the items of S.
RECURSIVE SomaDosCossenos(_, _)
SomaDosCossenos(i, S) ==
    IF S = {} THEN F(0)
    ELSE LET j == CHOOSE x \in S : TRUE
         IN  FAdd(Cosseno(dados.emb[i + 1], dados.emb[j + 1]),
                  SomaDosCossenos(i, S \ {j}))

\* The mean of the cosines of item i and every other item of the collection.
MediaDosOutros(i) ==
    LET outros == (0..(NumLinhas - 1)) \ {i}
    IN  IF outros = {} THEN NaN
        ELSE FDiv(SomaDosCossenos(i, outros), F(Cardinality(outros)))

\* C4: in anomaly mode the score recorded for every item i is the mean of
\* the cosines of i and each of the other N-1 items: the pair (i, i) is never
\* compared and every other pair exactly once.
C4_MediaDosOutros ==
    (FimDaIteracao /\ escolha = << "3" >> /\ dados # None) =>
        /\ Len(scores_medios) = NumLinhas
        /\ \A i \in 0..(NumLinhas - 1) :
              \E x \in DOMAIN scores_medios :
                 /\ scores_medios[x].idx = i
                 /\ scores_medios[x].score = MediaDosOutros(i)
        /\ \A i, j \in 0..(NumLinhas - 1) :
              Cardinality({ x \in DOMAIN pares : pares[x] = << i, j >> })
                 = IF i = j THEN 0 ELSE 1

\* Anomaly mode ran on at least three items whose means are numbers and not
\* all the same.
C4_Witness ==
    /\ escolha = << "3" >>
    /\ pc = "pausa"
    /\ NumLinhas >= 3
    /\ \A x \in DOMAIN scores_medios : IsNum(scores_medios[x].score)
    /\ \E x, y \in DOMAIN scores_medios :
          FLess(scores_medios[x].score, scores_medios[y].score)

----------------------------------------------------------------------------
(* C5 *)

\* The mean similarity recorded for item i.
MediaDe(i) ==
    LET x == CHOOSE y \in DOMAIN scores_medios : scores_medios[y].idx = i
    IN  scores_medios[x].score

\* The items anomaly mode printed.
Relatados == { relatorio[x] : x \in DOMAIN relatorio }

\* C5: anomaly mode reports items by ascending mean similarity, exactly the
\* configured count of them (3, when N >= 3), and the mean of every reported
\* item is <= the mean of every item that is not reported.  Stated on the
\* well-formed documents.
C5_MenoresPrimeiro ==
    (FimDaIteracao /\ escolha = << "3" >> /\ BemFormado) =>
        /\ (NumLinhas >= NumAnomalias => Len(relatorio) = NumAnomalias)
        /\ Relatados \subseteq 0..(NumLinhas - 1)
        /\ \A x, y \in DOMAIN relatorio :
              x < y => FLeq(MediaDe(relatorio[x]), MediaDe(relatorio[y]))
        /\ \A r \in Relatados : \A u \in (0..(NumLinhas - 1)) \ Relatados :
              FLeq(MediaDe(r), MediaDe(u))

----------------------------------------------------------------------------
(* C6 *)

\* The line typed at the query prompt holds nothing but white space.
SoEspacos == entrada # << >> /\ \A x \in DOMAIN entrada[1] : entrada[1][x] = Espaco

\* C6: in top-k and full-ranking mode an empty or whitespace-only query ends
\* the mode at once: the embedding model is not called, no search is made
\* and nothing is reported.
C6_QueryVazia ==
    (escolha \in { << "1" >>, << "2" >> } /\ SoEspacos) =>
        /\ codificou = << >>
        /\ resultado = << >>
        /\ relatorio = << >>
        /\ saida = "query_vazia"
        /\ pc = "pausa"

\* Top-k mode was given a line of one space on a loaded collection.
C6_Witness ==
    /\ escolha = << "1" >>
    /\ entrada = << << Espaco >> >>
    /\ NumLinhas >= 1
    /\ indice # SemIndice
    /\ saida = "query_vazia"

----------------------------------------------------------------------------
(* C7 *)

\* Nothing of a mode invocation is there: nothing indexed, read, encoded,
\* searched, scored or printed.
ModoNaoExecutou ==
    /\ indice = SemIndice
    /\ entrada = << >>
    /\ codificou = << >>
    /\ resultado = << >>
    /\ scores_medios = << >>
    /\ relatorio = << >>

\* C7: when the document of the chosen mode is missing, malformed or fails
\* the length invariant (a missing or misaligned metadata array included),
\* a load error is reported, the mode does not run and the process does not
\* crash: the iteration ends at the pause before the menu.  Stated on the
\* documents that fail the invariant and hold rows, none of norm 0.
C7_ErroDeCarga ==
    (/\ FimDaIteracao
     /\ escolha \in { << "1" >>, << "2" >>, << "3" >> }
     /\ arquivo.tipo = "json"
     /\ ~BemFormado
     /\ arquivo.emb # << >>
     /\ \A i \in DOMAIN arquivo.emb : arquivo.emb[i] # << 0, 0 >>) =>
        /\ saida = "erro_carga"
        /\ pc = "pausa"
        /\ dados = None
        /\ ModoNaoExecutou

----------------------------------------------------------------------------
(* C8 *)

\* C8: a document whose declared total differs from its number of rows, or
\* whose metadata arrays differ in length from the rows, is rejected with a
\* load error before any query or ranking runs on it.  Stated on the
\* documents of two rows or more, none of norm 0.
C8_TotalEMetadados ==
    (/\ FimDaIteracao
     /\ escolha \in { << "1" >>, << "2" >>, << "3" >> }
     /\ arquivo.tipo = "json"
     /\ Len(arquivo.emb) >= 2
     /\ \A i \in DOMAIN arquivo.emb : arquivo.emb[i] # << 0, 0 >>
     /\ \/ arquivo.total # Len(arquivo.emb)
        \/ (arquivo.temMeta /\ arquivo.meta # Len(arquivo.emb))) =>
        /\ saida = "erro_carga"
        /\ dados = None
        /\ resultado = << >>
        /\ scores_medios = << >>
        /\ relatorio = << >>

----------------------------------------------------------------------------
(* C9 *)

EhNumero(v) == IsNum(v[1]) /\ IsNum(v[2])

\* C9: when normalization or the cosine meets a vector of norm 0, an error
\* is reported and nothing derived from it is produced or reported: no
\* ranking, no NaN mean, no item printed.  Stated on the well-formed
\* documents, for the searches and the anomaly rankings made on them.
C9_VetorDegenerado ==
    (/\ BemFormado
     /\ TemNormaZero
     /\ (Buscou \/ (FimDaIteracao /\ escolha = << "3" >>))) =>
        /\ saida # "resultados"
        /\ resultado = << >>
        /\ \A x \in DOMAIN scores_medios : IsNum(scores_medios[x].score)
        /\ relatorio = << >>

----------------------------------------------------------------------------
(* C10 *)

\* The cosine of the query and of row i of the file, from the definition.
CossenoNoArquivo(i) ==
    Cosseno(ParaFloat32(<< encode(QueryLida) >>)[1],
            ParaFloat32(arquivo.emb)[i + 1])

\* v is a unit vector with the direction of w.
Unitario(v, w) ==
    /\ EhNumero(v)
    /\ ProdutoInterno(v, v) = F(1)
    /\ FMul(v[1], w[2]) = FMul(v[2], w[1])
    /\ ~FLess(ProdutoInterno(v, w), F(0))

\* C10: a mode leaves the collection it was given as it was loaded (vectors
\* and metadata), the index it searches holds the rows of that collection
\* alone, normalized, so that every score is that of this collection and
\* this query, and no index, query or result of an invocation is there
\* when the menu is shown again (main's dados still holds the last
\* collection, which nothing reads before it is rebound).
C10_SemEstado ==
    /\ dados.tipo = "json" => dados = carregar_embeddings(arquivo)
    /\ indice # SemIndice =>
          /\ Len(indice.xb) = Len(arquivo.emb)
          /\ \A i \in DOMAIN indice.xb :
                \/ Unitario(indice.xb[i], ParaFloat32(arquivo.emb)[i])
                \/ (arquivo.emb[i] = << 0, 0 >> /\ ~EhNumero(indice.xb[i]))
    /\ \A j \in DOMAIN resultado :
          resultado[j].idx >= 0 =>
             /\ resultado[j].idx < Len(arquivo.emb)
             /\ resultado[j].score = CossenoNoArquivo(resultado[j].idx)
    /\ pc \in { "inicio", "menu" } =>
          /\ ModoNaoExecutou
          /\ scores_medios = << >>
          /\ pares = << >>

\* A search ran on a collection with a row that is not a unit vector, which
\* normalizing in place would have changed.
C10_Witness ==
    /\ pc = "pausa"
    /\ Buscou
    /\ BemFormado
    /\ resultado # << >>
    /\ \E i \in DOMAIN dados.emb :
          FLess(F(1), ProdutoInterno(dados.emb[i], dados.emb[i]))

----------------------------------------------------------------------------
(* C11 *)

\* The embedding of the query of this iteration, as buscar_similares holds
\* it before normalizing.
VetorDaQuery == ParaFloat32(<< encode(QueryLida) >>)[1]

\* The positions of the collection whose vector is the query's own vector.
IguaisAQuery ==
    { i \in 0..(NumLinhas - 1) : dados.emb[i + 1] = VetorDaQuery }

\* The positions whose vector has the direction of that of position i.
MesmaDirecao(i) ==
    { j \in 0..(NumLinhas - 1) :
         Cosseno(dados.emb[j + 1], dados.emb[i + 1]) = F(1) }

\* C11 as claimed: on a collection of non-zero vectors, a search whose query
\* is vector i of the collection returns position i first, with score 1,
\* also when another vector of the collection has the direction of vector i.
C11_ProprioIndice ==
    (Buscou /\ BemFormado /\ ~TemNormaZero /\ resultado # << >>) =>
        \A i \in IguaisAQuery :
           /\ resultado[1].idx = i
           /\ resultado[1].score = F(1)

\* C11, amended: a search whose query is vector i of the collection returns
\* first, with score 1 (the largest cosine), a position whose vector has the
\* direction of vector i; it is position i when no other vector has that
\* direction.
C11_MesmaDirecao ==
    (Buscou /\ resultado # << >>) =>
        \A i \in IguaisAQuery :
           /\ resultado[1].score = F(1)
           /\ \A j \in DOMAIN resultado : ~FLess(F(1), resultado[j].score)
           /\ resultado[1].idx \in MesmaDirecao(i)
           /\ (MesmaDirecao(i) = {i} => resultado[1].idx = i)

\* A search whose query is the vector of two positions of the collection
\* returned the later of the two first.
C11_Witness ==
    /\ Buscou
    /\ BemFormado
    /\ resultado # << >>
    /\ \E i, j \in IguaisAQuery : i < j /\ resultado[1].idx = j

----------------------------------------------------------------------------
(* C12 *)

\* The last call of the converter saved a document.
Escreveu == conversao.escrito.tipo # "nenhum"

\* Position i of every array of the saved document d describes one item
\* of what the call read: one question of one PDF with its answer, its
\* file and the embedding of the answer; one TXT with its title, its
\* description and the embedding of the description; feedback i with its
\* four fields and the embedding of its text.
MesmoItem(d, i) ==
    LET lidos == conversao.arquivos
    IN  CASE d.tipo = "faq" ->
               \E j \in DOMAIN lidos :
                  LET pr == extrair_perguntas_respostas_de_texto(
                                extrair_texto_pdf(lidos[j]))
                  IN  \E x \in DOMAIN pr.perguntas :
                         /\ d.arrays.perguntas[i] = pr.perguntas[x]
                         /\ d.arrays.respostas[i] = pr.respostas[x]
                         /\ d.arrays.fontes[i] = j
                         /\ d.embeddings[i] = encode(pr.respostas[x])
          [] d.tipo = "filmes" ->
               \E j \in DOMAIN lidos :
                  LET texto == extrair_texto_txt(lidos[j])
                  IN  /\ texto # << >>
                      /\ d.arrays.titulos[i] = TituloEDescricao(texto).titulo
                      /\ d.arrays.descricoes[i]
                            = TituloEDescricao(texto).descricao
                      /\ d.embeddings[i]
                            = encode(TituloEDescricao(texto).descricao)
          [] OTHER ->
               LET feedback == lidos[1].feedbacks[i]
               IN  /\ d.arrays.ids[i] = feedback.id
                   /\ d.arrays.usuarios[i] = feedback.usuario
                   /\ d.arrays.datas[i] = feedback.data
                   /\ d.arrays.textos[i] = feedback.texto
                   /\ d.embeddings[i] = encode(feedback.texto)

\* C12: every document the converter saves has len(embeddings) == total ==
\* the length of each parallel metadata array, and position i of every
\* array describes the same item, whatever the input files are (unreadable,
\* empty and without question/answer pair included).
C12_ArraysParalelos ==
    Escreveu =>
        LET d == conversao.escrito
        IN  /\ d.total >= 1
            /\ Len(d.embeddings) = d.total
            /\ \A chave \in DOMAIN d.arrays : Len(d.arrays[chave]) = d.total
            /\ \A i \in 1..d.total : MesmoItem(d, i)

\* processar_faqs saved a document of two items or more from a directory
\* with an unreadable PDF and a readable one that yields no pair.
C12_Witness ==
    /\ conversao.pc = "filmes"
    /\ Escreveu
    /\ conversao.escrito.total >= 2
    /\ \E j \in DOMAIN conversao.arquivos : ~conversao.arquivos[j].legivel
    /\ \E j \in DOMAIN conversao.arquivos :
          LET texto == extrair_texto_pdf(conversao.arquivos[j])
          IN  /\ texto # << >>
              /\ extrair_perguntas_respostas_de_texto(texto).perguntas
                    = << >>

----------------------------------------------------------------------------
(* C13 *)

\* An iteration of the loop ran with a choice other than '0'.
EscolheuOutra == FimDaIteracao

\* The loop of main is over: main returned from inside it or an exception
\* left it.
LacoTerminou ==
    \/ pc = "crash"
    \/ (pc = "fim" /\ saida # "arquivos_faltando")

\* The mode that ran is the one of the choice: top-k (a query, k = 3) for
\* '1', full ranking (a query, k = the number of titles) for '2', anomaly
\* ranking (no query, the mean scores) for '3'.
ModoDaEscolha ==
    /\ escolha \in { << "1" >>, << "2" >> } =>
          /\ scores_medios = << >> /\ pares = << >>
          /\ resultado # << >> => Len(resultado) = KUsado
    /\ escolha = << "3" >> =>
          /\ entrada = << >> /\ ~Buscou /\ resultado = << >>
          /\ saida \in { "erro_carga", "resultados", "excecao" }

\* C13: after an iteration with a choice other than '0' the menu is shown
\* again; the loop ends only on the choice '0'; an invalid option loads
\* nothing (main's dados is what it was) and runs no mode; '1', '2' and
\* '3' run top-k, full ranking and anomaly mode.  Stated on the files that
\* are missing, invalid, or well-formed without a vector of norm 0.
C13_MenuDeNovo ==
    /\ (EscolheuOutra /\ (arquivo.tipo = "json" => BemFormado /\ ~TemNormaZero))
          ~> (pc = "menu")
    /\ [](LacoTerminou /\ (arquivo.tipo = "json" => BemFormado /\ ~TemNormaZero)
             => escolha = << "0" >>)
    /\ [](saida = "opcao_invalida" => ModoNaoExecutou)
    /\ [][saida' = "opcao_invalida" => UNCHANGED << dados, arquivo >>]_vars
    /\ [](EscolheuOutra => ModoDaEscolha)

----------------------------------------------------------------------------
(* C14 *)

NaoEVazia(linha) == Strip(linha) # << >>

\* The lines of a text that are not empty once stripped, stripped, in
\* order: the first of them is the title.
NaoVazias(texto) ==
    LET ls == SelectSeq(Split(texto), NaoEVazia)
    IN  [i \in DOMAIN ls |-> Strip(ls[i])]

\* C14: the two lists returned have the same length; every question is made
\* of the lines a..b of the text, where line a matches 'N.' and is not the
\* first non-empty line and line b ends with '?'; its answer is made of the
\* lines b+1..c, of which there is one at least and none matches 'N.'; when
\* no numbered line is followed by a line ending with '?' that has a line
\* after it, nothing is returned.
C14_PerguntasERespostas ==
    extracao.pc = "retorno" =>
        LET L == NaoVazias(extracao.texto)
            n == Len(L)
            P == extracao.perguntas
            R == extracao.respostas
        IN  /\ Len(P) = Len(R)
            /\ \A k \in DOMAIN P :
                  \E a \in 2..n, b \in 2..n, c \in 2..n :
                     /\ a <= b /\ b < c
                     /\ padrao_numero(L[a])
                     /\ endswith(L[b], "?")
                     /\ endswith(P[k], "?")
                     /\ \A m \in (b + 1)..c : ~padrao_numero(L[m])
                     /\ P[k] = Join(Espaco, SubSeq(L, a, b))
                     /\ R[k] = Join(Espaco, SubSeq(L, b + 1, c))
                     /\ R[k] # << >>
            /\ (\A a \in 2..n :
                   padrao_numero(L[a]) =>
                      \A b \in a..(n - 1) : ~endswith(L[b], "?"))
                  => P = << >>

\* The call returned a pair whose question has two lines at least, from a
\* text whose first non-empty line matches 'N.'.
C14_Witness ==
    /\ extracao.pc = "retorno"
    /\ Len(extracao.perguntas) = 1
    /\ Contem(extracao.perguntas[1], Espaco)
    /\ padrao_numero(NaoVazias(extracao.texto)[1])

\* The call returned a pair and dropped the numbered question that the
\* text ends with.
C14_WitnessDescartada ==
    /\ extracao.pc = "retorno"
    /\ Len(extracao.perguntas) = 1
    /\ LET L == NaoVazias(extracao.texto)
       IN  padrao_numero(L[Len(L)])

====
